---- MODULE Spec2Model ----
(***************************************************************************)
(* Incremental market-data synchronisation engine of dataload_project:     *)
(* the symbol classifier and the instrument master reconciliation          *)
(* (capital-market, derivative and mutual-fund master syncs) against the   *)
(* securities tables and their uniqueness constraints, and the price       *)
(* history loader with its remote provider and its price tables, and the   *)
(* daily job that runs the master syncs and then the price stage.          *)
(*                                                                         *)
(* Strings the code takes apart (symbols, ISINs) are sequences of          *)
(* one-character strings; strings it only compares are TLA+ strings.       *)
(***************************************************************************)
EXTENDS Integers, Sequences, FiniteSets, TLC

VARIABLES
    \* SymbolMasterLoader._classify_security: one call and its repetition
    clsSymbol, clsIsin, clsResult, clsRepeat, clsPc,
    \* the database: securities, securities_equity_meta, securities_derivative_meta
    securities, equity_meta, derivative_meta,
    \* datetime.utcnow() of the next master sync
    now,
    \* the most recent master sync: its input, the tables before it, how it ended,
    \* and whether its input was that of the sync before it
    lastRun, prevDb, outcome, repeat,
    \* run_stock_dataload.main: where it is, the units of work it has run, and
    \* the exception that ended it
    job,
    \* the price tables: daily_price_history, one_minute_history
    daily_price_history, one_minute_history,
    \* datetime.now(), in minutes, and the timeframe the price loader is run for
    clock, timeframe,
    \* the remote history provider: how it answers, and whether it has already
    \* answered one request of the current load out of the ordinary
    provider,
    \* PriceHistoryProcessor.load_history: its frame, the remote calls of the
    \* current load, and the number of loads started
    ld, calls, loads

clsVars == <<clsSymbol, clsIsin, clsResult, clsRepeat, clsPc>>
dbVars == <<securities, equity_meta, derivative_meta>>
runVars == <<now, lastRun, prevDb, outcome, repeat, job>>
priceVars == <<daily_price_history, one_minute_history>>
histVars == <<priceVars, clock, timeframe, provider, ld, calls, loads>>
vars == <<clsVars, dbVars, runVars, histVars>>

(***************************************************************************)
(* Python values                                                           *)
(***************************************************************************)
\* Python's None (a JSON null, a SQL NULL): no character is the string "None"
NoneVal == <<"None">>

\* Python truthiness of an optional string
Truthy(s) == s # NoneVal /\ s # <<>>

\* str.startswith(p)
StartsWith(s, p) == Len(s) >= Len(p) /\ SubSeq(s, 1, Len(p)) = p

\* str.startswith(tuple of prefixes)
StartsWithAny(s, ps) == \E p \in ps : StartsWith(s, p)

\* the index of the first "-" of s at or after position i, 0 when there is none
RECURSIVE FindDash(_, _)
FindDash(s, i) ==
    IF i > Len(s) THEN 0
    ELSE IF s[i] = "-" THEN i
    ELSE FindDash(s, i + 1)

\* str.split("-"): the pieces between the separators, never an empty list
RECURSIVE Split(_)
Split(s) ==
    LET d == FindDash(s, 1)
    IN  IF d = 0 THEN <<s>>
        ELSE <<SubSeq(s, 1, d - 1)>> \o Split(SubSeq(s, d + 1, Len(s)))

(***************************************************************************)
(* SymbolMasterLoader._classify_security                                   *)
(***************************************************************************)
INF == <<"I", "N", "F">>
INDEX == <<"I", "N", "D", "E", "X">>
EquitySuffixes == {<<"E", "Q">>, <<"S", "M">>, <<"S", "T">>, <<"B", "Z">>, <<"E", "1">>}
BondPrefixes == {<<"N">>, <<"Y">>, <<"Z">>, <<"M">>, <<"D">>}

\* the chain of suffix tests without its final fallback: the function falls off
\* its end and returns Python's None
ClassifySuffixNoFallback(suffix) ==
    IF suffix = INDEX THEN "INDEX"
    ELSE IF suffix \in EquitySuffixes THEN "EQUITY"
    ELSE IF suffix = <<"B", "E">> THEN "ETF"
    ELSE IF suffix = <<"I", "V">> THEN "INVIT"
    ELSE IF suffix = <<"R", "E">> THEN "REIT"
    ELSE IF suffix \in {<<"S", "G">>, <<"G", "B">>} THEN "SGB"
    ELSE IF suffix = <<"G", "S">> THEN "GSEC"
    ELSE IF StartsWithAny(suffix, BondPrefixes) THEN "BOND"
    ELSE IF StartsWith(suffix, <<"P">>) THEN "PREFERENCE_SHARE"
    ELSE IF suffix = <<"R", "R">> THEN "RIGHTS"
    ELSE IF StartsWith(suffix, <<"W">>) THEN "WARRANT"
    ELSE IF suffix = <<"M", "F">> THEN "MF"
    ELSE "None"

\* the chain of suffix tests, in the order of the code
ClassifySuffix(suffix) ==
    IF suffix = INDEX THEN "INDEX"
    ELSE IF suffix \in EquitySuffixes THEN "EQUITY"
    ELSE IF suffix = <<"B", "E">> THEN "ETF"
    ELSE IF suffix = <<"I", "V">> THEN "INVIT"
    ELSE IF suffix = <<"R", "E">> THEN "REIT"
    ELSE IF suffix \in {<<"S", "G">>, <<"G", "B">>} THEN "SGB"
    ELSE IF suffix = <<"G", "S">> THEN "GSEC"
    ELSE IF StartsWithAny(suffix, BondPrefixes) THEN "BOND"
    ELSE IF StartsWith(suffix, <<"P">>) THEN "PREFERENCE_SHARE"
    ELSE IF suffix = <<"R", "R">> THEN "RIGHTS"
    ELSE IF StartsWith(suffix, <<"W">>) THEN "WARRANT"
    ELSE IF suffix = <<"M", "F">> THEN "MF"
    ELSE "UNKNOWN"

\* a suffix taken after the first separator instead of the last
SuffixAfterFirstDash(symbol) ==
    LET parts == Split(symbol)
    IN  IF Len(parts) > 1 THEN parts[2] ELSE <<>>

\* suffix = parts[-1] if len(parts) > 1 else ""
SuffixOf(symbol) ==
    LET parts == Split(symbol)
    IN  IF Len(parts) > 1 THEN parts[Len(parts)] ELSE <<>>

classify_security(symbol, isin) ==
    IF Truthy(isin) /\ StartsWith(isin, INF) THEN "MF"
    ELSE ClassifySuffix(SuffixOf(symbol))

(***************************************************************************)
(* The classifier's inputs                                                 *)
(***************************************************************************)
MaxIdLen == 3

ClsAlphabet == {"-", "A", "E", "F", "M", "N", "P", "Q", "R", "W"}

RECURSIVE SeqsUpTo(_, _)
SeqsUpTo(S, n) ==
    IF n = 0 THEN {<<>>}
    ELSE LET shorter == SeqsUpTo(S, n - 1)
         IN  shorter \cup {Append(s, c) : s \in shorter, c \in S}

\* every suffix a rule names, a token for each prefix rule, and tokens no rule takes
ClsTokens ==
    EquitySuffixes \cup
    { INDEX, <<"B", "E">>, <<"I", "V">>, <<"R", "E">>, <<"S", "G">>, <<"G", "B">>,
      <<"G", "S">>, <<"R", "R">>, <<"M", "F">>,
      <<"N", "1">>, <<"Y", "2">>, <<"Z", "3">>, <<"M", "4">>, <<"D", "5">>,
      <<"P", "1">>, <<"P", "P">>, <<"W", "1">>, <<"W", "3">>,
      <<"Q", "Q">>, <<"e", "q">>, <<"I", "N", "D", "E", "X", "1">>, <<"X">> }

ClsStems ==
    { <<"A">>, <<"R", "E", "L", "I", "A", "N", "C", "E">>, <<"A", "-", "E", "Q">>,
      <<"M", "-", "M", "F", "-">> }

ClsSymbols ==
    SeqsUpTo(ClsAlphabet, MaxIdLen) \cup
    {stem \o <<"-">> \o tok : stem \in ClsStems, tok \in ClsTokens}

ClsIsins ==
    { NoneVal, <<>>, INF, <<"I", "N", "F", "1", "2", "3">>, <<"I", "N", "E", "1">>,
      <<"I", "N">>, <<"X", "I", "N", "F">> }

(***************************************************************************)
(* The database (database/models.py) and the ORM session                   *)
(***************************************************************************)
\* a key the provider's record does not hold: item[key] raises KeyError
KeyMissing == "MISSING"

\* valid_to IS NULL; the clock starts after it
NullTime == 0

\* a NULL in a string column
NullStr == "NULL"

Db == [securities |-> securities, equity_meta |-> equity_meta,
       derivative_meta |-> derivative_meta]

EmptyDb == [securities |-> <<>>, equity_meta |-> <<>>, derivative_meta |-> <<>>]

\* a securities table without its unique constraints
NoUniqueViolation(rows, row) == FALSE

\* Security.symbol and Security.isin are unique=True over the whole table, closed
\* rows included; NULLs never collide
UniqueViolation(rows, row) ==
    \E i \in 1..Len(rows) :
        \/ rows[i].symbol = row.symbol
        \/ (row.isin # NoneVal /\ rows[i].isin = row.isin)

\* with Session() as session: the tables as the transaction sees them, the Security
\* objects added and not yet flushed (each with the derivative meta attached to
\* it, or NoMeta), the equity meta objects added and not yet flushed, and the
\* exception raised, if any
NoMeta == [instrument_type |-> "none"]

OpenSession(db) ==
    [db |-> db, pendingSec |-> <<>>, pendingEq |-> <<>>, error |-> "none"]

Raise(s, exc) == [s EXCEPT !.error = exc]

\* session.add(obj): the object is pending until the next flush
AddSecurity(s, sec, meta) ==
    [s EXCEPT !.pendingSec = Append(@, [sec |-> sec, meta |-> meta])]

AddEquityMeta(s, meta) == [s EXCEPT !.pendingEq = Append(@, meta)]

\* the INSERTs of a flush, parents first, in the order the objects were added; the
\* primary key is the row's position in its table; the first constraint violation
\* raises IntegrityError and leaves the rest unsent
RECURSIVE InsertPending(_)
InsertPending(s) ==
    IF s.pendingSec # <<>> THEN
        LET p == Head(s.pendingSec)
            id == Len(s.db.securities) + 1
            row == [p.sec EXCEPT !.id = id]
        IN  IF UniqueViolation(s.db.securities, row)
            THEN Raise(s, "IntegrityError")
            ELSE InsertPending(
                    [s EXCEPT
                        !.pendingSec = Tail(@),
                        !.db.securities = Append(@, row),
                        !.db.derivative_meta =
                            IF p.meta = NoMeta THEN @
                            ELSE Append(@, [p.meta EXCEPT !.security_id = id])])
    ELSE IF s.pendingEq # <<>> THEN
        InsertPending(
            [s EXCEPT
                !.pendingEq = Tail(@),
                !.db.equity_meta = Append(@, Head(s.pendingEq))])
    ELSE s

\* session.flush()
Flush(s) == IF s.error # "none" THEN s ELSE InsertPending(s)

\* session.commit(): flushes what is pending; reached only when nothing was raised
Commit(s) == Flush(s)

\* a session that commits each statement as it is sent (autocommit)
SessionCloseKeepsFlushed(before, s) == s.db

\* the end of the with block: the tables are those of the committed transaction,
\* or, when an exception left the block, the tables before it (rollback)
SessionClose(before, s) == IF s.error = "none" THEN s.db ELSE before

\* how a sync ended: "committed", or the exception that left it
Ended(before, s) ==
    [db |-> SessionClose(before, s),
     outcome |-> IF s.error = "none" THEN "committed" ELSE s.error]

\* an early return: nothing was written
Returned(before) == [db |-> before, outcome |-> "noop"]

(***************************************************************************)
(* SymbolMasterLoader.process_capital_market_master                        *)
(***************************************************************************)
\* item.get("isin") or None
IsinOrNone(item) == IF Truthy(item.isin) THEN item.isin ELSE NoneVal

\* select(Security.symbol).where(exchange == ..., segment == ...): all rows, closed
\* ones included
SymbolsOf(db, exchange, segment) ==
    { db.securities[i].symbol :
        i \in { j \in 1..Len(db.securities) :
                  /\ db.securities[j].exchange = exchange
                  /\ db.securities[j].segment = segment } }

\* {s: i for s, i in data.items() if s not in db_symbols_set}
NewRecords(data, db_symbols_set) ==
    LET IsNew(rec) == rec.symbol \notin db_symbols_set
    IN  SelectSeq(data, IsNew)

\* a loader that skips mutual funds only
SkippedTypesMFOnly == {"MF"}

\* if sec_type in ("MF", "UNKNOWN"): continue
SkippedTypes == {"MF", "UNKNOWN"}

RECURSIVE CMLoop(_, _, _, _, _, _)
CMLoop(new_records, i, exchange, segment, t, s) ==
    IF i > Len(new_records) \/ s.error # "none" THEN s
    ELSE
        LET symbol == new_records[i].symbol
            item == new_records[i].item
            isin == IsinOrNone(item)
            sec_type == classify_security(symbol, isin)
        IN  IF sec_type \in SkippedTypes
            THEN CMLoop(new_records, i + 1, exchange, segment, t, s)
            ELSE IF item.symbolDetails = KeyMissing THEN Raise(s, "KeyError")
            ELSE
                LET new_sec ==
                        [id |-> 0, symbol |-> symbol, name |-> item.symbolDetails,
                         security_type |-> sec_type, exchange |-> exchange,
                         segment |-> segment, isin |-> isin,
                         valid_from |-> t, valid_to |-> NullTime]
                    added == AddSecurity(s, new_sec, NoMeta)
                IN  IF sec_type # "EQUITY"
                    THEN CMLoop(new_records, i + 1, exchange, segment, t, added)
                    ELSE
                        LET flushed == Flush(added)
                        IN  IF flushed.error # "none" THEN flushed
                            ELSE IF \/ item.minLotSize = KeyMissing
                                    \/ item.tickSize = KeyMissing
                            THEN Raise(flushed, "KeyError")
                            ELSE CMLoop(new_records, i + 1, exchange, segment, t,
                                    AddEquityMeta(flushed,
                                        [security_id |-> Len(flushed.db.securities),
                                         lot_size |-> item.minLotSize,
                                         tick_size |-> item.tickSize,
                                         company_name |-> item.symbolDetails]))

process_capital_market_master(data, exchange, segment, t, db) ==
    LET db_symbols_set == SymbolsOf(db, exchange, segment)
        new_records == NewRecords(data, db_symbols_set)
    IN  IF new_records = <<>> THEN Returned(db)
        ELSE
            LET s == CMLoop(new_records, 1, exchange, segment, t, OpenSession(db))
            IN  Ended(db, IF s.error = "none" THEN Commit(s) ELSE s)

(***************************************************************************)
(* SymbolMasterLoader.process_derivative_master                            *)
(***************************************************************************)
\* datetime.fromtimestamp(int(item["expiryDate"])).date() on the expiry values the
\* provider sends here: what CPython 3.11 returns or raises for each
ParseExpiry(v) ==
    CASE v = KeyMissing -> [raised |-> "KeyError", date |-> NullStr]
      [] v = "1735689600" -> [raised |-> "none", date |-> "2025-01-01"]
      [] v = "1738368000" -> [raised |-> "none", date |-> "2025-02-01"]
      [] v = "abc" -> [raised |-> "ValueError", date |-> NullStr]
      [] v = "None" -> [raised |-> "TypeError", date |-> NullStr]
      [] v = "1000000000000" -> [raised |-> "ValueError", date |-> NullStr]
      [] v = "100000000000000000000" -> [raised |-> "OverflowError", date |-> NullStr]

\* except (ValueError, TypeError): log and continue
CaughtExpiryErrors == {"ValueError", "TypeError"}

\* "FUTURE" if opt_type == "XX" else "OPTION" if opt_type in ("CE", "PE") else None
\* a typing that makes an option of every listed code
DerivativeTypeAllOptions(opt_type) ==
    IF opt_type \in {"XX", "CE", "PE"} THEN "OPTION" ELSE "None"

DerivativeType(opt_type) ==
    IF opt_type = "XX" THEN "FUTURE"
    ELSE IF opt_type \in {"CE", "PE"} THEN "OPTION"
    ELSE "None"

RECURSIVE FOLoop(_, _, _, _, _, _)
FOLoop(new_records, i, exchange, segment, t, s) ==
    IF i > Len(new_records) \/ s.error # "none" THEN s
    ELSE
        LET symbol == new_records[i].symbol
            item == new_records[i].item
            opt_type == IF item.optType = KeyMissing THEN "None" ELSE item.optType
            sec_type == DerivativeType(opt_type)
            expiry == ParseExpiry(item.expiryDate)
        IN  IF sec_type = "None"
            THEN FOLoop(new_records, i + 1, exchange, segment, t, s)
            ELSE IF item.symbolDetails = KeyMissing THEN Raise(s, "KeyError")
            ELSE IF expiry.raised \in CaughtExpiryErrors
            THEN FOLoop(new_records, i + 1, exchange, segment, t, s)
            ELSE IF expiry.raised # "none" THEN Raise(s, expiry.raised)
            ELSE IF \/ item.underSym = KeyMissing
                    \/ item.minLotSize = KeyMissing
                    \/ item.tickSize = KeyMissing
            THEN Raise(s, "KeyError")
            ELSE
                LET new_sec ==
                        [id |-> 0, symbol |-> symbol, name |-> item.symbolDetails,
                         security_type |-> sec_type, exchange |-> exchange,
                         segment |-> segment, isin |-> IsinOrNone(item),
                         valid_from |-> t, valid_to |-> NullTime]
                    deriv_meta ==
                        [security_id |-> 0,
                         underlying_symbol |-> item.underSym,
                         instrument_type |->
                            IF sec_type = "FUTURE" THEN "FUT" ELSE "OPT",
                         expiry_date |-> expiry.date,
                         strike_price |->
                            IF sec_type = "OPTION" /\ item.strikePrice # KeyMissing
                            THEN item.strikePrice ELSE NullStr,
                         option_type |->
                            IF sec_type = "OPTION" THEN opt_type ELSE NullStr,
                         lot_size |-> item.minLotSize,
                         tick_size |-> item.tickSize]
                IN  FOLoop(new_records, i + 1, exchange, segment, t,
                        AddSecurity(s, new_sec, deriv_meta))

\* a derivative loader that also closes the stored rows of the identifiers the
\* file lists
ProcessDerivativeClosing(data, exchange, segment, t, db) ==
    LET db_symbols_set == SymbolsOf(db, exchange, segment)
        new_records == NewRecords(data, db_symbols_set)
        s == FOLoop(new_records, 1, exchange, segment, t, OpenSession(db))
        r == Ended(db, IF s.error = "none" THEN Commit(s) ELSE s)
        listed == { data[k].symbol : k \in 1..Len(data) }
    IN  [r EXCEPT !.db.securities =
            [ j \in 1..Len(@) |->
                IF /\ j <= Len(db.securities)
                   /\ @[j].exchange = exchange
                   /\ @[j].segment = segment
                   /\ @[j].symbol \in listed
                THEN [@[j] EXCEPT !.valid_to = t]
                ELSE @[j] ]]

process_derivative_master(data, exchange, segment, t, db) ==
    LET db_symbols_set == SymbolsOf(db, exchange, segment)
        new_records == NewRecords(data, db_symbols_set)
    IN  IF new_records = <<>> THEN Returned(db)
        ELSE
            LET s == FOLoop(new_records, 1, exchange, segment, t, OpenSession(db))
            IN  Ended(db, IF s.error = "none" THEN Commit(s) ELSE s)

(***************************************************************************)
(* sync_mf_master_list                                                     *)
(***************************************************************************)
\* the rows the query loads: security_type == 'MF', without the valid_to filter
AllMFRows(db) ==
    { i \in 1..Len(db.securities) : db.securities[i].security_type = "MF" }

\* select(Security).where(security_type == 'MF', valid_to.is_(None)): the ids
ActiveMFRows(db) ==
    { i \in 1..Len(db.securities) :
        /\ db.securities[i].security_type = "MF"
        /\ db.securities[i].valid_to = NullTime }

\* fund.get('isinGrowth') or fund.get('isinDivReinvestment')
FundIsin(fund) ==
    IF Truthy(fund.isinGrowth) THEN fund.isinGrowth ELSE fund.isinDivReinvestment

MFSecurity(symbol, fund, t) ==
    [id |-> 0, symbol |-> symbol, name |-> fund.schemeName,
     security_type |-> "MF", exchange |-> "AMFI", segment |-> NullStr,
     isin |-> FundIsin(fund), valid_from |-> t, valid_to |-> NullTime]

\* for symbol in new_symbols: the funds of the API list that have no active row,
\* taken in the order of the list
RECURSIVE MFAddNew(_, _, _, _, _)
MFAddNew(api_funds, i, db_symbols, t, s) ==
    IF i > Len(api_funds) \/ s.error # "none" THEN s
    ELSE
        LET symbol == api_funds[i].symbol
            fund == api_funds[i].item
        IN  IF symbol \in db_symbols
            THEN MFAddNew(api_funds, i + 1, db_symbols, t, s)
            ELSE IF fund.schemeName = KeyMissing THEN Raise(s, "KeyError")
            ELSE MFAddNew(api_funds, i + 1, db_symbols, t,
                    AddSecurity(s, MFSecurity(symbol, fund, t), NoMeta))

\* for symbol in deactivated_symbols: mf_to_deactivate.valid_to = now
MFDeactivate(active, api_symbols, t, s) ==
    IF s.error # "none" THEN s
    ELSE [s EXCEPT !.db.securities =
            [j \in 1..Len(@) |->
                IF j \in active /\ @[j].symbol \notin api_symbols
                THEN [@[j] EXCEPT !.valid_to = t]
                ELSE @[j]]]

\* for symbol in existing_symbols: a changed schemeName closes the row and adds a
\* new version of it
RECURSIVE MFRevise(_, _, _, _, _)
MFRevise(api_funds, i, active, t, s) ==
    IF i > Len(api_funds) \/ s.error # "none" THEN s
    ELSE
        LET symbol == api_funds[i].symbol
            fund == api_funds[i].item
            ids == { j \in active : s.db.securities[j].symbol = symbol }
        IN  IF ids = {}
            THEN MFRevise(api_funds, i + 1, active, t, s)
            ELSE IF fund.schemeName = KeyMissing THEN Raise(s, "KeyError")
            ELSE
                LET j == CHOOSE k \in ids : TRUE
                IN  IF s.db.securities[j].name = fund.schemeName
                    THEN MFRevise(api_funds, i + 1, active, t, s)
                    ELSE MFRevise(api_funds, i + 1, active, t,
                            AddSecurity(
                                [s EXCEPT !.db.securities[j].valid_to = t],
                                MFSecurity(symbol, fund, t), NoMeta))

sync_mf_master_list(api_funds, t, db) ==
    IF api_funds = <<>> THEN Returned(db)
    ELSE
        LET active == ActiveMFRows(db)
            db_symbols == { db.securities[j].symbol : j \in active }
            api_symbols == { api_funds[i].symbol : i \in 1..Len(api_funds) }
            s0 == OpenSession(db)
            s1 == MFAddNew(api_funds, 1, db_symbols, t, s0)
            s2 == MFDeactivate(active, api_symbols, t, s1)
            s3 == MFRevise(api_funds, 1, active, t, s2)
        IN  Ended(db, IF s3.error = "none" THEN Commit(s3) ELSE s3)

(***************************************************************************)
(* The master files the providers may publish                              *)
(***************************************************************************)
AEQ == <<"A", "-", "E", "Q">>
BINDEX == <<"B", "-", "I", "N", "D", "E", "X">>
ZQQ == <<"Z", "-", "Q", "Q">>
FUT1 == <<"N", "I", "F", "T", "Y", "F", "U", "T">>
OPT1 == <<"N", "I", "F", "T", "Y", "C", "E">>
MF100 == <<"1", "0", "0">>
MF101 == <<"1", "0", "1">>
INE1 == <<"I", "N", "E", "1">>
INF1 == <<"I", "N", "F", "1">>
INF2 == <<"I", "N", "F", "2">>

CMItem(name, isin, lot) ==
    [symbolDetails |-> name, isin |-> isin, minLotSize |-> lot, tickSize |-> "0.05"]

\* what the capital-market file may say about each symbol
CMOffers ==
    << [symbol |-> AEQ,
        items |-> { CMItem("ALPHA LTD", INE1, "1"),
                    CMItem("ALPHA INDUSTRIES", INE1, "1"),
                    CMItem("ALPHA LTD", INE1, KeyMissing) }],
       [symbol |-> BINDEX,
        items |-> { CMItem("BETA INDEX", NoneVal, "1"),
                    CMItem("BETA INDEX", INE1, "1"),
                    CMItem(KeyMissing, NoneVal, "1") }],
       [symbol |-> ZQQ,
        items |-> { CMItem("ZED", <<>>, "1"),
                    CMItem("ZED FUND", INF1, "1") }] >>

FOItem(opt, expiry, under, strike) ==
    [optType |-> opt, symbolDetails |-> "NIFTY", isin |-> NoneVal,
     expiryDate |-> expiry, underSym |-> under, strikePrice |-> strike,
     minLotSize |-> "50", tickSize |-> "0.05"]

\* what the derivative file may say about each symbol; A-EQ is a symbol the
\* capital-market file lists as well
FOOffers ==
    << [symbol |-> FUT1,
        items |-> { FOItem("XX", "1735689600", "NIFTY", KeyMissing),
                    FOItem("XX", "abc", "NIFTY", KeyMissing),
                    FOItem("XX", "None", "NIFTY", KeyMissing),
                    FOItem("XX", "100000000000000000000", "NIFTY", KeyMissing),
                    FOItem("ZZ", "1735689600", "NIFTY", KeyMissing) }],
       [symbol |-> OPT1,
        items |-> { FOItem("CE", "1738368000", "NIFTY", "25000"),
                    FOItem("PE", "1000000000000", "NIFTY", "25000"),
                    FOItem("CE", "1738368000", KeyMissing, "25000"),
                    FOItem(KeyMissing, "1738368000", "NIFTY", "25000") }],
       [symbol |-> AEQ,
        items |-> { FOItem("XX", "1735689600", "ALPHA", KeyMissing) }] >>

Fund(name, growth, div) ==
    [schemeName |-> name, isinGrowth |-> growth, isinDivReinvestment |-> div]

\* what the fund list may say about each scheme code
MFOffers ==
    << [symbol |-> MF100,
        items |-> { Fund("FUND A", INF1, NoneVal),
                    Fund("FUND A DIRECT", INF1, NoneVal) }],
       [symbol |-> MF101,
        items |-> { Fund("FUND B", NoneVal, INF2),
                    Fund("FUND B", INF1, NoneVal),
                    Fund(KeyMissing, NoneVal, INF2) }] >>

\* the files over offers i..: each symbol absent or with one of its items, in the
\* order of the offers
RECURSIVE Files(_, _)
Files(offers, i) ==
    IF i > Len(offers) THEN {<<>>}
    ELSE LET rest == Files(offers, i + 1)
         IN  rest \cup
             { <<[symbol |-> offers[i].symbol, item |-> it]>> \o r :
                 it \in offers[i].items, r \in rest }

CMFiles == Files(CMOffers, 1)
FOFiles == Files(FOOffers, 1)
MFLists == Files(MFOffers, 1)

(***************************************************************************)
(* The master syncs as they are run                                        *)
(***************************************************************************)
\* the number of master syncs a behaviour holds
MaxRuns == 3

NoRun == [path |-> "none", data |-> <<>>, now |-> 0]

Ran(path, data, r) ==
    /\ securities' = r.db.securities
    /\ equity_meta' = r.db.equity_meta
    /\ derivative_meta' = r.db.derivative_meta
    /\ outcome' = r.outcome
    /\ prevDb' = Db
    /\ repeat' = (lastRun.path = path /\ lastRun.data = data)
    /\ lastRun' = [path |-> path, data |-> data, now |-> now]
    /\ now' = now + 1
    /\ UNCHANGED <<clsVars, histVars, job>>

\* process_master_file: an empty download is logged and nothing is processed;
\* segment "FO" goes to the derivative loader, any other to the capital-market one
process_master_file(data, exchange, segment, t, db) ==
    IF data = <<>> THEN Returned(db)
    ELSE IF segment = "FO"
    THEN process_derivative_master(data, exchange, segment, t, db)
    ELSE process_capital_market_master(data, exchange, segment, t, db)

\* process_master_file("nse_cm", "NSE", "CM", ...)
ReconcileCM ==
    /\ now <= MaxRuns
    /\ \E data \in CMFiles :
        Ran("CM", data, process_master_file(data, "NSE", "CM", now, Db))

\* process_master_file("nse_fo", "NSE", "FO", ...)
ReconcileFO ==
    /\ now <= MaxRuns
    /\ \E data \in FOFiles :
        Ran("FO", data, process_master_file(data, "NSE", "FO", now, Db))

\* run_mf_dataload: sync_mf_master_list(db_manager, api_client)
SyncMF ==
    /\ now <= MaxRuns
    /\ \E api_funds \in MFLists :
        Ran("MF", api_funds, sync_mf_master_list(api_funds, now, Db))

(***************************************************************************)
(* Price history: PriceHistoryProcessor.load_history                       *)
(*                                                                         *)
(* Instants (datetime) are minutes since the epoch in local time; a date   *)
(* is a day number, and where the code compares dates they are the         *)
(* instants of their midnights.                                            *)
(***************************************************************************)
MinutesPerDay == 24 * 60

\* timedelta(days=n)
Days(n) == n * MinutesPerDay

\* datetime.date(), and the day that strftime("%Y-%m-%d") prints
DateOf(t) == t \div MinutesPerDay

\* datetime.combine(d, datetime.min.time()), and a date where it is compared
Midnight(d) == d * MinutesPerDay

\* mutant of Max
MaxNoClamp(a, b) == a

Max(a, b) == IF a >= b THEN a ELSE b

MaxOf(S) == CHOOSE x \in S : \A y \in S : y <= x

\* the column the unique constraint of the timeframe's table names next to
\* security_id
KeyOf(tf, row) == IF tf = "D" THEN row.price_date ELSE row.price_timestamp

\* DatabaseManager.get_last_daily_update: the midnight of the newest stored
\* date of the security, None (NullTime) when it has no row
get_last_daily_update(security_id) ==
    LET dates == { daily_price_history[i].price_date :
                     i \in { j \in 1..Len(daily_price_history) :
                               daily_price_history[j].security_id = security_id } }
    IN  IF dates = {} THEN NullTime ELSE Midnight(MaxOf(dates))

\* DatabaseManager.get_last_intraday_update
get_last_intraday_update(security_id) ==
    LET stamps == { one_minute_history[i].price_timestamp :
                      i \in { j \in 1..Len(one_minute_history) :
                                one_minute_history[j].security_id = security_id } }
    IN  IF stamps = {} THEN NullTime ELSE MaxOf(stamps)

last_update_of(tf, security_id) ==
    IF tf = "D" THEN get_last_daily_update(security_id)
    ELSE get_last_intraday_update(security_id)

\* mutants of days_per_chunk
DaysPerChunkHalved(tf) == IF tf = "D" THEN 365 ELSE 30

DaysPerChunkSwapped(tf) == IF tf = "D" THEN 60 ELSE 365 * 2

days_per_chunk(tf) == IF tf = "D" THEN 365 * 2 ELSE 60

max_lookback_days(tf) == IF tf = "D" THEN 365 * 20 ELSE 365 * 7

\* mutants of start_date
StartIgnoringCheckpoint(tf, last_update, t) ==
    IF tf = "D" THEN Midnight(DateOf(t)) - Days(max_lookback_days(tf))
    ELSE t - Days(max_lookback_days(tf))

StartAtCheckpoint(tf, last_update, t) ==
    IF last_update # NullTime THEN last_update
    ELSE IF tf = "D" THEN Midnight(DateOf(t)) - Days(max_lookback_days(tf))
    ELSE t - Days(max_lookback_days(tf))

\* start_date: one day (daily) or one minute after the checkpoint, and without
\* one today's date (daily) or the present instant less the lookback
start_date(tf, last_update, t) ==
    IF tf = "D"
    THEN IF last_update # NullTime THEN last_update + Days(1)
         ELSE Midnight(DateOf(t)) - Days(max_lookback_days(tf))
    ELSE IF last_update # NullTime THEN last_update + 1
         ELSE t - Days(max_lookback_days(tf))

\* end_date: datetime.now(), its date when start_date is a date
end_date(tf, last_update, t) ==
    IF tf = "D" /\ last_update = NullTime THEN Midnight(DateOf(t)) ELSE t

(***************************************************************************)
(* The remote history provider                                             *)
(***************************************************************************)
BarTime == 555

Candle(day, close) == [ts |-> Midnight(day) + BarTime, close |-> close]

\* the provider holds a fixed set of bars, one on every MarketPeriod-th day
\* counted back from today ("edges": the days on which the chunks of an initial
\* load begin and end) or from yesterday ("inner")
MarketPeriod == IF timeframe = "D" THEN 730 ELSE 60

HasBar(mode, day) ==
    (DateOf(clock) - day) % MarketPeriod = (IF mode = "inner" THEN 1 ELSE 0)

MinOf(S) == CHOOSE x \in S : \A y \in S : x <= y

RECURSIVE Ascending(_)
Ascending(S) ==
    IF S = {} THEN <<>>
    ELSE LET m == MinOf(S) IN << m >> \o Ascending(S \ {m})

\* the bars of the days range_from..range_to, oldest first
Bars(mode, range_from, range_to) ==
    LET days == Ascending({ d \in range_from..range_to : HasBar(mode, d) })
    IN  [ i \in 1..Len(days) |-> Candle(days[i], 1) ]

Modes == {"inner", "edges"}

Kinds == {"plain", "dup", "reversed", "empty", "error", "raise"}

Reverse(seq) == [ i \in 1..Len(seq) |-> seq[Len(seq) + 1 - i] ]

\* self.fyers.history(data): the bars, the bars with the last one repeated at
\* another close, the bars newest first, no bar, an error status, or an
\* exception
history(mode, kind, range_from, range_to) ==
    LET bars == Bars(mode, range_from, range_to) IN
    CASE kind = "plain" -> [s |-> "ok", candles |-> bars]
      [] kind = "dup" ->
            [s |-> "ok",
             candles |-> IF bars = <<>> THEN bars
                         ELSE Append(bars, [bars[Len(bars)] EXCEPT !.close = 2])]
      [] kind = "reversed" -> [s |-> "ok", candles |-> Reverse(bars)]
      [] kind = "empty" -> [s |-> "ok", candles |-> <<>>]
      [] kind = "error" -> [s |-> "error", candles |-> <<>>]
      [] OTHER -> [s |-> "raise", candles |-> <<>>]

\* FyersApiClient.fetch_history_chunk: the candles of an "ok" response, None for
\* any other status and for an exception
fetch_history_chunk(response) ==
    IF response.s = "raise" THEN [isNone |-> TRUE, candles |-> <<>>]
    ELSE IF response.s = "ok" THEN [isNone |-> FALSE, candles |-> response.candles]
    ELSE [isNone |-> TRUE, candles |-> <<>>]

\* mutant of Stops
StopsOnNoneOnly(chunk_data) == chunk_data.isNone

\* if not chunk_data
Stops(chunk_data) == chunk_data.isNone \/ chunk_data.candles = <<>>

\* records_to_insert: one record per candle, in the order received
records_to_insert(tf, security_id, candles) ==
    [ i \in 1..Len(candles) |->
        IF tf = "D"
        THEN [security_id |-> security_id,
              price_date |-> DateOf(candles[i].ts),
              close |-> candles[i].close]
        ELSE [security_id |-> security_id,
              price_timestamp |-> candles[i].ts,
              close |-> candles[i].close] ]

\* mutant of UniqueBarViolation
NoUniqueBarViolation(tf, table, data) == FALSE

\* uq_daily_price, uq_one_minute_price: two records of the batch, or a record
\* and a stored row, with the same security_id and date (timestamp)
UniqueBarViolation(tf, table, data) ==
    \/ \E i, j \in 1..Len(data) :
        /\ i # j
        /\ data[i].security_id = data[j].security_id
        /\ KeyOf(tf, data[i]) = KeyOf(tf, data[j])
    \/ \E i \in 1..Len(data), j \in 1..Len(table) :
        /\ data[i].security_id = table[j].security_id
        /\ KeyOf(tf, data[i]) = KeyOf(tf, table[j])

\* mutant of bulk_insert_ends
BulkInsertRaises(ok) == IF ok THEN "returned" ELSE "raised"

\* DatabaseManager.bulk_insert catches every exception of the insert
bulk_insert_ends(ok) == "returned"

\* mutant of bulk_insert: rows of the table with the key of a record of the
\* batch take the values of the last such record
BulkUpsert(tf, table, data) ==
    LET Hits(row) == { i \in 1..Len(data) :
                        /\ data[i].security_id = row.security_id
                        /\ KeyOf(tf, data[i]) = KeyOf(tf, row) }
        Fresh(rec) == \A j \in 1..Len(table) : Hits(table[j]) = {} \/
                        ~(/\ rec.security_id = table[j].security_id
                          /\ KeyOf(tf, rec) = KeyOf(tf, table[j]))
    IN  [table |-> [ j \in 1..Len(table) |->
                        IF Hits(table[j]) = {} THEN table[j]
                        ELSE data[MaxOf(Hits(table[j]))] ]
                   \o SelectSeq(data, Fresh),
         ok |-> TRUE, ends |-> "returned", events |-> <<"insert", "commit">>]

RECURSIVE InsertEach(_, _, _)
\* mutant of bulk_insert: the records are inserted one by one, and those that
\* collide are left out
InsertEach(tf, table, data) ==
    IF data = <<>> THEN table
    ELSE InsertEach(tf,
                    IF \E j \in 1..Len(table) :
                          /\ data[1].security_id = table[j].security_id
                          /\ KeyOf(tf, data[1]) = KeyOf(tf, table[j])
                    THEN table ELSE Append(table, data[1]),
                    Tail(data))

BulkInsertPartial(tf, table, data) ==
    [table |-> InsertEach(tf, table, data), ok |-> TRUE, ends |-> "returned",
     events |-> <<"insert", "commit">>]

\* mutant of bulk_insert_events
BulkInsertDeferred(ok) == <<"insert">>

\* DatabaseManager.bulk_insert sends the insert and then commits it, or rolls it
\* back, before it returns
bulk_insert_events(ok) == <<"insert", IF ok THEN "commit" ELSE "rollback">>

\* DatabaseManager.bulk_insert: nothing for an empty batch; the whole batch in
\* one transaction, rolled back when the insert fails
bulk_insert(tf, table, data) ==
    IF data = <<>>
    THEN [table |-> table, ok |-> TRUE, ends |-> "returned", events |-> <<>>]
    ELSE IF UniqueBarViolation(tf, table, data)
    THEN [table |-> table, ok |-> FALSE, ends |-> bulk_insert_ends(FALSE),
          events |-> bulk_insert_events(FALSE)]
    ELSE [table |-> table \o data, ok |-> TRUE, ends |-> bulk_insert_ends(TRUE),
          events |-> bulk_insert_events(TRUE)]

TableOf(tf) == IF tf = "D" THEN daily_price_history ELSE one_minute_history

(***************************************************************************)
(* load_history, a step at a time: the set-up down to the loop, and one    *)
(* turn of the loop                                                        *)
(***************************************************************************)
MaxLoads == 2

LoadedSecurity == 1

OtherSecurity == 2

\* load_history has no return statement with a value: it returns None
load_history_returns == [isNone |-> TRUE, count |-> 0]

IdleFrame ==
    [pc |-> "idle", security_id |-> LoadedSecurity, last_update |-> NullTime,
     start_date |-> NullTime, end_date |-> NullTime, current_to_date |-> NullTime,
     before |-> <<<<>>, <<>>>>, rerun |-> FALSE, resumed |-> FALSE,
     returns |-> load_history_returns]

\* load_history down to the while, for a security and a timeframe at the
\* instant t: an unsupported timeframe and a start at or after the end return at
\* once; before holds the price tables as the call found them
load_history(security_id, tf, t) ==
    LET last_update == last_update_of(tf, security_id)
        start == start_date(tf, last_update, t)
        end == end_date(tf, last_update, t)
    IN  IF tf \notin {"D", "1"}
        THEN [IdleFrame EXCEPT !.pc = "returned"]
        ELSE [pc |-> IF start >= end THEN "returned" ELSE "loop",
              security_id |-> security_id,
              last_update |-> last_update,
              start_date |-> start,
              end_date |-> end,
              current_to_date |-> end,
              before |-> priceVars,
              rerun |-> FALSE,
              resumed |-> FALSE,
              returns |-> load_history_returns]

\* a call of load_history; rerun tells that the load before it returned and was
\* answered by the same provider without anything out of the ordinary, resumed
\* that a load before it had no checkpoint and ended on a call without data
\* after a batch of it was stored
LoadHistory ==
    /\ ld.pc # "loop"
    /\ loads < MaxLoads
    /\ \E mode \in Modes :
        /\ ld' = IF timeframe \notin {"D", "1"}
                 THEN load_history(LoadedSecurity, timeframe, clock)
                 ELSE [load_history(LoadedSecurity, timeframe, clock) EXCEPT
                         !.rerun = /\ ld.pc = "returned"
                                   /\ provider.mode = mode
                                   /\ ~provider.deviated,
                         !.resumed =
                            \/ ld.resumed
                            \/ /\ ld.pc = "returned"
                               /\ ld.last_update = NullTime
                               /\ \E i \in 1..Len(calls) : calls[i].inserted > 0
                               /\ \E i \in 1..Len(calls) :
                                    calls[i].returned # "data"]
        /\ provider' = [mode |-> mode, deviated |-> FALSE]
    /\ calls' = <<>>
    /\ loads' = loads + 1
    /\ UNCHANGED <<clsVars, dbVars, runVars, priceVars, clock, timeframe>>

\* one turn of the while loop: the chunk, the remote call, the insert of its
\* records, and the test of the loop for the next turn; the call is recorded
\* with the keys of the batch handed to bulk_insert and with what was done for
\* it, in the order it was done
FetchChunk ==
    /\ ld.pc = "loop"
    /\ \E kind \in (IF provider.deviated THEN {"plain"} ELSE Kinds) :
        LET current_to_date == ld.current_to_date
            chunk_from_date ==
                Max(current_to_date - Days(days_per_chunk(timeframe)), ld.start_date)
            range_from == DateOf(chunk_from_date)
            range_to == DateOf(current_to_date)
            chunk_data ==
                fetch_history_chunk(history(provider.mode, kind, range_from, range_to))
            data == records_to_insert(timeframe, ld.security_id, chunk_data.candles)
            ins == bulk_insert(timeframe, TableOf(timeframe), data)
            call == [chunk_from |-> chunk_from_date, chunk_to |-> current_to_date,
                     range_from |-> range_from, range_to |-> range_to,
                     kind |-> kind,
                     returned |-> IF chunk_data.isNone THEN "none"
                                  ELSE IF chunk_data.candles = <<>> THEN "empty"
                                  ELSE "data",
                     n |-> Len(chunk_data.candles),
                     keys |-> <<>>,
                     inserted |-> 0,
                     events |-> <<"call", "response">>]
        IN  IF chunk_from_date >= current_to_date
            THEN /\ ld' = [ld EXCEPT !.pc = "returned"]
                 /\ UNCHANGED <<priceVars, provider, calls>>
            ELSE /\ provider' = [provider EXCEPT !.deviated = (@ \/ kind # "plain")]
                 /\ IF Stops(chunk_data)
                    THEN /\ calls' = Append(calls, call)
                         /\ ld' = [ld EXCEPT !.pc = "returned"]
                         /\ UNCHANGED priceVars
                    ELSE /\ calls' = Append(calls,
                                [call EXCEPT
                                    !.keys = [ i \in 1..Len(data) |->
                                                KeyOf(timeframe, data[i]) ],
                                    !.inserted =
                                        Len(ins.table) - Len(TableOf(timeframe)),
                                    !.events = @ \o ins.events])
                         /\ daily_price_history' =
                                IF timeframe = "D" THEN ins.table
                                ELSE daily_price_history
                         /\ one_minute_history' =
                                IF timeframe = "D" THEN one_minute_history
                                ELSE ins.table
                         /\ ld' = IF ins.ends = "raised"
                                  THEN [ld EXCEPT !.pc = "raised"]
                                  ELSE [ld EXCEPT
                                          !.current_to_date = chunk_from_date,
                                          !.pc = IF chunk_from_date > ld.start_date
                                                 THEN "loop" ELSE "returned"]
    /\ UNCHANGED <<clsVars, dbVars, runVars, clock, timeframe, loads>>

\* no price loader has run: the state of the master syncs and of the classifier
InitIdlePrices ==
    /\ daily_price_history = <<>>
    /\ one_minute_history = <<>>
    /\ clock = 0
    /\ timeframe = "D"
    /\ provider = [mode |-> "inner", deviated |-> FALSE]
    /\ ld = IdleFrame
    /\ calls = <<>>
    /\ loads = 0

IdleJob == [pc |-> "idle", units |-> <<>>, error |-> "none"]

InitDb ==
    /\ job = IdleJob
    /\ securities = <<>>
    /\ equity_meta = <<>>
    /\ derivative_meta = <<>>
    /\ now = 1
    /\ lastRun = NoRun
    /\ prevDb = EmptyDb
    /\ outcome = "none"
    /\ repeat = FALSE

InitCls ==
    /\ clsSymbol = <<>>
    /\ clsIsin = NoneVal
    /\ clsResult = "pending"
    /\ clsRepeat = "pending"
    /\ clsPc = "idle"

(***************************************************************************)
(* One call of the classifier, and the same call again                     *)
(***************************************************************************)
Classify ==
    /\ clsPc = "call"
    /\ clsResult' = classify_security(clsSymbol, clsIsin)
    /\ clsPc' = "returned"
    /\ UNCHANGED <<clsSymbol, clsIsin, clsRepeat, dbVars, runVars, histVars>>

ClassifyAgain ==
    /\ clsPc = "returned"
    /\ clsRepeat' = classify_security(clsSymbol, clsIsin)
    /\ clsPc' = "repeated"
    /\ UNCHANGED <<clsSymbol, clsIsin, clsResult, dbVars, runVars, histVars>>

InitClassify ==
    /\ clsSymbol \in ClsSymbols
    /\ clsIsin \in ClsIsins
    /\ clsResult = "pending"
    /\ clsRepeat = "pending"
    /\ clsPc = "call"
    /\ InitDb
    /\ InitIdlePrices

NextClassify == Classify \/ ClassifyAgain

SpecClassify == InitClassify /\ [][NextClassify]_vars

InitReconcile == InitCls /\ InitDb /\ InitIdlePrices

NextReconcile == ReconcileCM \/ ReconcileFO \/ SyncMF

SpecReconcile == InitReconcile /\ [][NextReconcile]_vars

(***************************************************************************)
(* The daily job: run_stock_dataload.main                                  *)
(***************************************************************************)
\* run_symbol_master_sync: the capital-market file, then the derivative file;
\* an exception of the first leaves the function before the second
run_symbol_master_sync(cm, fo, t, db) ==
    LET first == process_master_file(cm, "NSE", "CM", t, db)
        second == process_master_file(fo, "NSE", "FO", t, first.db)
    IN  IF first.outcome \notin {"committed", "noop"}
        THEN [db |-> first.db, units |-> <<"CM">>, outcome |-> first.outcome]
        ELSE [db |-> second.db, units |-> <<"CM", "FO">>, outcome |-> second.outcome]

\* main, stage 1: an exception of the synchronisation is caught by main, which
\* logs it and returns
Stage1 ==
    /\ job.pc = "idle"
    /\ \E cm \in CMFiles, fo \in FOFiles :
        LET r == run_symbol_master_sync(cm, fo, now, Db) IN
        /\ securities' = r.db.securities
        /\ equity_meta' = r.db.equity_meta
        /\ derivative_meta' = r.db.derivative_meta
        /\ outcome' = r.outcome
        /\ job' = IF r.outcome \in {"committed", "noop"}
                  THEN [pc |-> "stage2", units |-> r.units, error |-> "none"]
                  ELSE [pc |-> "failed", units |-> r.units, error |-> r.outcome]
        /\ lastRun' = [path |-> "main", data |-> cm, now |-> now]
    /\ prevDb' = Db
    /\ repeat' = FALSE
    /\ now' = now + 1
    /\ UNCHANGED <<clsVars, histVars>>

\* main, stage 2: run_price_history_load is called; its loads are those of
\* SpecHistory and are not run here
Stage2 ==
    /\ job.pc = "stage2"
    /\ job' = [job EXCEPT !.pc = "completed", !.units = Append(@, "prices")]
    /\ UNCHANGED <<clsVars, dbVars, histVars, now, lastRun, prevDb, outcome, repeat>>

InitJob == InitReconcile

NextJob == Stage1 \/ Stage2

SpecJob == InitJob /\ [][NextJob]_vars

(***************************************************************************)
(* The price loader over the stores it can find: no bar, a bar of another  *)
(* security, or a newest bar of the security around the present instant    *)
(***************************************************************************)
Today == 20000

ClockTime == 600

CheckpointOffsets == {-2, -1, 0, 1}

Timeframes == {"D", "1", "5"}

DailyStores ==
    {<<>>, << [security_id |-> OtherSecurity, price_date |-> Today, close |-> 1] >>}
    \cup { << [security_id |-> LoadedSecurity, price_date |-> Today + o, close |-> 1] >> :
            o \in CheckpointOffsets }

MinuteStores ==
    {<<>>, << [security_id |-> OtherSecurity,
               price_timestamp |-> Midnight(Today) + ClockTime, close |-> 1] >>}
    \cup { << [security_id |-> LoadedSecurity,
               price_timestamp |-> Midnight(Today) + ClockTime + o, close |-> 1] >> :
            o \in CheckpointOffsets }

InitHistory ==
    /\ InitCls
    /\ InitDb
    /\ clock = Midnight(Today) + ClockTime
    /\ timeframe \in Timeframes
    /\ daily_price_history \in (IF timeframe = "D" THEN DailyStores ELSE {<<>>})
    /\ one_minute_history \in (IF timeframe = "1" THEN MinuteStores ELSE {<<>>})
    /\ provider = [mode |-> "inner", deviated |-> FALSE]
    /\ ld = IdleFrame
    /\ calls = <<>>
    /\ loads = 0

NextHistory == LoadHistory \/ FetchChunk

SpecHistory == InitHistory /\ [][NextHistory]_vars

(***************************************************************************)
(* run_price_history_load: the loads of every security of the list         *)
(***************************************************************************)
\* session.query(Security).filter(security_type.in_([...]), valid_to.is_(None)):
\* the ids of the rows, in the order of the table
securities_to_load ==
    LET Loaded(row) == /\ row.security_type \in {"EQUITY", "FUTURE", "INDEX"}
                       /\ row.valid_to = NullTime
        rows == SelectSeq(securities, Loaded)
    IN  [ i \in 1..Len(rows) |-> rows[i].id ]

timeframes_to_load == <<"D", "1">>

\* the pairs of the two nested for loops, in the order they are taken
Pairs ==
    [ n \in 1..(Len(securities_to_load) * Len(timeframes_to_load)) |->
        [security_id |->
            securities_to_load[((n - 1) \div Len(timeframes_to_load)) + 1],
         tf |-> timeframes_to_load[((n - 1) % Len(timeframes_to_load)) + 1]] ]

\* a run that lets the exception of a load leave the loops
ReraisesLoadError(raised) == IF raised THEN "raised" ELSE "next"

\* try: load_history(security, tf) / except Exception: logger.error(...): the
\* loops go on to the next pair whether the load returned or raised
after_load(raised) == "next"

\* run_price_history_load down to the loops: a client that cannot be built is
\* logged and the run returns; the list of securities is read once
StartRun ==
    /\ job.pc = "idle"
    /\ \E client_ok \in BOOLEAN :
        job' = IF ~client_ok
               THEN [job EXCEPT !.pc = "finished", !.error = "Initialization failed"]
               ELSE [job EXCEPT !.pc = IF Len(Pairs) = 0 THEN "finished"
                                       ELSE "pairs"]
    /\ UNCHANGED <<clsVars, dbVars, histVars, now, lastRun, prevDb, outcome, repeat>>

\* the call of load_history for the next pair; get_last_daily_update and
\* get_last_intraday_update have no handler, so a store that cannot be reached
\* makes the call raise before any request is sent
LoadPair ==
    /\ job.pc = "pairs"
    /\ ld.pc # "loop"
    /\ Len(job.units) < Len(Pairs)
    /\ job.units # <<>> => job.units[Len(job.units)].outcome # "running"
    /\ LET pair == Pairs[Len(job.units) + 1]
       IN  /\ \E mode \in Modes, available \in BOOLEAN :
                /\ ld' = IF available
                         THEN load_history(pair.security_id, pair.tf, clock)
                         ELSE [IdleFrame EXCEPT !.pc = "raised",
                                                !.security_id = pair.security_id]
                /\ provider' = [mode |-> mode, deviated |-> FALSE]
           /\ timeframe' = pair.tf
           /\ job' = [job EXCEPT !.units =
                        Append(@, [security_id |-> pair.security_id,
                                   tf |-> pair.tf, outcome |-> "running"])]
    /\ calls' = <<>>
    /\ loads' = loads + 1
    /\ UNCHANGED <<clsVars, dbVars, priceVars, clock,
                   now, lastRun, prevDb, outcome, repeat>>

\* the end of the try statement of a pair, and the test of the loops
PairEnds ==
    /\ job.pc = "pairs"
    /\ job.units # <<>>
    /\ job.units[Len(job.units)].outcome = "running"
    /\ ld.pc \in {"returned", "raised"}
    /\ LET raised == ld.pc = "raised"
           stopped == \E i \in 1..Len(calls) : calls[i].returned # "data"
       IN  job' = [job EXCEPT
                    !.units[Len(job.units)].outcome =
                        IF raised THEN "raised"
                        ELSE IF stopped THEN "stopped" ELSE "returned",
                    !.pc = IF after_load(raised) = "raised" THEN "failed"
                           ELSE IF Len(job.units) = Len(Pairs) THEN "finished"
                           ELSE "pairs",
                    !.error = IF after_load(raised) = "raised" THEN "load" ELSE @]
    /\ UNCHANGED <<clsVars, dbVars, histVars, now, lastRun, prevDb, outcome, repeat>>

\* the master files that built the stores a run starts from
RunMasters ==
    { [cm |-> << [symbol |-> AEQ, item |-> CMItem("ALPHA LTD", INE1, "1")] >>,
       fo |-> << [symbol |-> FUT1,
                  item |-> FOItem("XX", "1735689600", "NIFTY", KeyMissing)],
                 [symbol |-> OPT1,
                  item |-> FOItem("CE", "1738368000", "NIFTY", "25000")] >>],
      [cm |-> << [symbol |-> BINDEX, item |-> CMItem("BETA INDEX", NoneVal, "1")] >>,
       fo |-> << [symbol |-> OPT1,
                  item |-> FOItem("CE", "1738368000", "NIFTY", "25000")] >>],
      [cm |-> <<>>,
       fo |-> << [symbol |-> OPT1,
                  item |-> FOItem("CE", "1738368000", "NIFTY", "25000")] >>] }

\* how far behind the present the newest stored bar of every security is
RunOffsets == {-2, -1}

\* a run starts on a store the master synchronisation filled, with the prices of
\* every security loaded up to a day or a minute or two before the present
InitRun ==
    /\ InitCls
    /\ job = IdleJob
    /\ now = 2
    /\ lastRun = NoRun
    /\ prevDb = EmptyDb
    /\ outcome = "committed"
    /\ repeat = FALSE
    /\ \E m \in RunMasters :
        LET db == run_symbol_master_sync(m.cm, m.fo, 1, EmptyDb).db
        IN  /\ securities = db.securities
            /\ equity_meta = db.equity_meta
            /\ derivative_meta = db.derivative_meta
    /\ clock = Midnight(Today) + ClockTime
    /\ \E o \in RunOffsets :
        /\ daily_price_history =
            [ i \in 1..Len(securities) |->
                [security_id |-> securities[i].id, price_date |-> Today + o,
                 close |-> 1] ]
        /\ one_minute_history =
            [ i \in 1..Len(securities) |->
                [security_id |-> securities[i].id,
                 price_timestamp |-> clock + o, close |-> 1] ]
    /\ timeframe = "D"
    /\ provider = [mode |-> "inner", deviated |-> FALSE]
    /\ ld = IdleFrame
    /\ calls = <<>>
    /\ loads = 0

NextRun == StartRun \/ LoadPair \/ FetchChunk \/ PairEnds

SpecRun == InitRun /\ [][NextRun]_vars

(***************************************************************************)
(* The classifier                                                          *)
(***************************************************************************)
InstrumentTypes ==
    { "EQUITY", "INDEX", "ETF", "FUTURE", "OPTION", "BOND", "MF", "REIT", "INVIT",
      "SGB", "GSEC", "PREFERENCE_SHARE", "RIGHTS", "WARRANT", "UNKNOWN" }

Classified == clsPc \in {"returned", "repeated"}

\* C1: for every identifier and optional ISIN the classifier returns one of the
\* enumerated instrument types, and the same call made again returns the same type
C1_ClassifyTotal ==
    /\ Classified => clsResult \in InstrumentTypes
    /\ clsPc = "repeated" => clsRepeat = clsResult

\* C1: an identifier no rule takes, classified twice, is UNKNOWN
C1_Witness ==
    /\ clsPc = "repeated"
    /\ clsSymbol = <<"A", "-", "Q", "Q">>
    /\ clsIsin = NoneVal
    /\ clsResult = "UNKNOWN"

\* the suffix rules as the ordered table of section 4.1
RefRules ==
    << [exact |-> {INDEX}, prefixes |-> {}, type |-> "INDEX"],
       [exact |-> {<<"E", "Q">>, <<"S", "M">>, <<"S", "T">>, <<"B", "Z">>, <<"E", "1">>},
        prefixes |-> {}, type |-> "EQUITY"],
       [exact |-> {<<"B", "E">>}, prefixes |-> {}, type |-> "ETF"],
       [exact |-> {<<"I", "V">>}, prefixes |-> {}, type |-> "INVIT"],
       [exact |-> {<<"R", "E">>}, prefixes |-> {}, type |-> "REIT"],
       [exact |-> {<<"S", "G">>, <<"G", "B">>}, prefixes |-> {}, type |-> "SGB"],
       [exact |-> {<<"G", "S">>}, prefixes |-> {}, type |-> "GSEC"],
       [exact |-> {}, prefixes |-> {"N", "Y", "Z", "M", "D"}, type |-> "BOND"],
       [exact |-> {}, prefixes |-> {"P"}, type |-> "PREFERENCE_SHARE"],
       [exact |-> {<<"R", "R">>}, prefixes |-> {}, type |-> "RIGHTS"],
       [exact |-> {}, prefixes |-> {"W"}, type |-> "WARRANT"],
       [exact |-> {<<"M", "F">>}, prefixes |-> {}, type |-> "MF"] >>

\* the token after the last "-", empty when there is none
RefToken(symbol) ==
    LET dashes == { i \in 1..Len(symbol) : symbol[i] = "-" }
    IN  IF dashes = {} THEN <<>>
        ELSE LET last == CHOOSE i \in dashes : \A j \in dashes : j <= i
             IN  SubSeq(symbol, last + 1, Len(symbol))

RefMatches(rule, tok) ==
    \/ tok \in rule.exact
    \/ (tok # <<>> /\ tok[1] \in rule.prefixes)

HasMFIsin(isin) ==
    /\ isin # NoneVal
    /\ Len(isin) >= 3
    /\ isin[1] = "I" /\ isin[2] = "N" /\ isin[3] = "F"

RefClassify(symbol, isin) ==
    IF HasMFIsin(isin) THEN "MF"
    ELSE LET tok == RefToken(symbol)
             hits == { k \in 1..Len(RefRules) : RefMatches(RefRules[k], tok) }
         IN  IF hits = {} THEN "UNKNOWN"
             ELSE RefRules[CHOOSE k \in hits : \A h \in hits : k <= h].type

\* C2: the classifier's result is that of the ordered first-match reference: MF for
\* a mutual-fund ISIN, else the first rule of the table that takes the token after
\* the last "-", else UNKNOWN
C2_ClassifyIsReference == Classified => clsResult = RefClassify(clsSymbol, clsIsin)

\* C2: an identifier with two separators is classified by its last token
C2_Witness ==
    /\ clsPc = "returned"
    /\ clsSymbol = <<"A", "-", "E", "Q", "-", "N", "1">>
    /\ clsIsin = <<"I", "N", "E", "1">>
    /\ clsResult = "BOND"

ExactSuffixTypes ==
    { k \in 1..Len(RefRules) : RefRules[k].exact # {} }

\* C3: an identifier whose suffix token is one of the exact-match suffixes (and
\* whose ISIN is not a mutual fund's) is classified by that suffix's exact rule
C3_ExactBeforePrefix ==
    (Classified /\ ~HasMFIsin(clsIsin)) =>
        \A k \in ExactSuffixTypes :
            RefToken(clsSymbol) \in RefRules[k].exact => clsResult = RefRules[k].type

(***************************************************************************)
(* The master syncs                                                        *)
(***************************************************************************)
Rows(db) == 1..Len(db.securities)

IsActive(row) == row.valid_to = NullTime

\* the rows the sync of a path compares the provider's records with: the active
\* rows of its exchange and segment, the active mutual funds for the fund list
LocalActive(path, db) ==
    { i \in Rows(db) :
        /\ IsActive(db.securities[i])
        /\ CASE path = "CM" -> /\ db.securities[i].exchange = "NSE"
                               /\ db.securities[i].segment = "CM"
             [] path = "FO" -> /\ db.securities[i].exchange = "NSE"
                               /\ db.securities[i].segment = "FO"
             [] path = "MF" -> db.securities[i].security_type = "MF"
             [] OTHER -> FALSE }

LocalSymbols(path, db) == { db.securities[i].symbol : i \in LocalActive(path, db) }

ProviderSymbols(data) == { data[k].symbol : k \in 1..Len(data) }

Returns == outcome \in {"committed", "noop"}

Raises == outcome \in {"IntegrityError", "KeyError", "OverflowError"}

\* C4: a sync run again with the input of the sync before it leaves the three
\* tables as that sync left them
C4_Idempotent == repeat => Db = prevDb

\* C4: the fund list synced twice over a store that holds its funds
C4_Witness ==
    /\ repeat
    /\ lastRun.path = "MF"
    /\ outcome = "committed"
    /\ Len(lastRun.data) = 2
    /\ Len(securities) >= 2

\* C5: no identifier has two rows with valid_to NULL
C5_OneActiveRow ==
    \A i, j \in Rows(Db) :
        (/\ securities[i].symbol = securities[j].symbol
         /\ IsActive(securities[i])
         /\ IsActive(securities[j])) => i = j

\* C5: the fund list renames a fund that has an active row
C5_Witness ==
    /\ lastRun.path = "MF"
    /\ \E i \in LocalActive("MF", prevDb), k \in 1..Len(lastRun.data) :
        /\ lastRun.data[k].symbol = prevDb.securities[i].symbol
        /\ lastRun.data[k].item.schemeName # KeyMissing
        /\ lastRun.data[k].item.schemeName # prevDb.securities[i].name
    /\ outcome = "IntegrityError"

\* C6: after a sync returns, every identifier that was active in the local set and
\* is absent from the provider's records has its row closed at the run's now, and
\* every row of before is still there
C6_DroppedAreClosed ==
    (Returns /\ lastRun.data # <<>>) =>
        /\ Len(securities) >= Len(prevDb.securities)
        /\ \A i \in LocalActive(lastRun.path, prevDb) :
            prevDb.securities[i].symbol \notin ProviderSymbols(lastRun.data) =>
                securities[i].valid_to = lastRun.now

\* C7: after a capital-market sync returns, an identifier of the local set whose
\* provider name differs from the stored one has its old row closed at the run's
\* now and a new active row with the new name and valid_from = now
C7_RenamedAreRevised ==
    (Returns /\ lastRun.path = "CM") =>
        \A i \in LocalActive("CM", prevDb), k \in 1..Len(lastRun.data) :
            (/\ lastRun.data[k].symbol = prevDb.securities[i].symbol
             /\ lastRun.data[k].item.symbolDetails # KeyMissing
             /\ lastRun.data[k].item.symbolDetails # prevDb.securities[i].name) =>
                /\ securities[i].valid_to = lastRun.now
                /\ \E j \in Rows(Db) :
                    /\ securities[j].symbol = lastRun.data[k].symbol
                    /\ securities[j].name = lastRun.data[k].item.symbolDetails
                    /\ securities[j].valid_from = lastRun.now
                    /\ IsActive(securities[j])

\* the rows a sync added for a symbol, and the equity meta rows of a security
AddedRows(symbol) ==
    { j \in Rows(Db) : j > Len(prevDb.securities) /\ securities[j].symbol = symbol }

EquityMetaOf(id) == { m \in 1..Len(equity_meta) : equity_meta[m].security_id = id }

\* what section 4.2 step 3 says of the provider record k of a capital-market sync
NewRecordOutcome(k) ==
    LET symbol == lastRun.data[k].symbol
        item == lastRun.data[k].item
        type == classify_security(symbol, IsinOrNone(item))
    IN  symbol \notin LocalSymbols("CM", prevDb) =>
            IF type \in {"MF", "UNKNOWN"} THEN AddedRows(symbol) = {}
            ELSE /\ Cardinality(AddedRows(symbol)) = 1
                 /\ \A j \in AddedRows(symbol) :
                    /\ IsActive(securities[j])
                    /\ securities[j].security_type = type
                    /\ Cardinality(EquityMetaOf(securities[j].id)) =
                            IF type = "EQUITY" THEN 1 ELSE 0

\* every record of a capital-market file holds the fields the loader reads
CMComplete(data) ==
    \A k \in 1..Len(data) :
        /\ data[k].item.symbolDetails # KeyMissing
        /\ data[k].item.minLotSize # KeyMissing
        /\ data[k].item.tickSize # KeyMissing

\* C8 as stated, for files whose records are complete: every new identifier of a capital-market sync gets no row when it
\* is MF or UNKNOWN and else one active row of its type, with an equity meta row
\* exactly for EQUITY
C8_NewRecordsAdded ==
    (lastRun.path = "CM" /\ CMComplete(lastRun.data)) =>
        \A k \in 1..Len(lastRun.data) : NewRecordOutcome(k)

\* C8 amended: that holds of a capital-market sync that returns; one that raises
\* (a constraint violation, a record without a required field) adds no row at all
C8_NewRecordsAddedOnCommit ==
    lastRun.path = "CM" =>
        /\ Returns => \A k \in 1..Len(lastRun.data) : NewRecordOutcome(k)
        /\ Raises => Db = prevDb

\* C8: A-EQ and B-INDEX synced into an empty store
C8_Witness ==
    /\ lastRun.path = "CM"
    /\ outcome = "committed"
    /\ prevDb = EmptyDb
    /\ ProviderSymbols(lastRun.data) = {AEQ, BINDEX}
    /\ Len(securities) = 2
    /\ Len(equity_meta) = 1

\* C9: a sync that a persistence failure ends leaves the three tables as they were
\* before it
C9_AllOrNothing == outcome = "IntegrityError" => Db = prevDb

\* C9: the second record of a batch violates a constraint after the first one was
\* flushed
C9_Witness ==
    /\ outcome = "IntegrityError"
    /\ lastRun.path = "CM"
    /\ prevDb = EmptyDb
    /\ Len(lastRun.data) = 2
    /\ lastRun.data[1].symbol = AEQ
    /\ lastRun.data[1].item.minLotSize # KeyMissing

\* the new records of the last derivative sync
FONew == NewRecords(lastRun.data, SymbolsOf(prevDb, "NSE", "FO"))

FOTyped(rec) ==
    /\ rec.item.optType \in {"XX", "CE", "PE"}
    /\ rec.item.symbolDetails # KeyMissing
    /\ rec.item.expiryDate # KeyMissing

FOUnparseable(rec) ==
    FOTyped(rec) /\ ParseExpiry(rec.item.expiryDate).raised # "none"

FOValid(rec) ==
    /\ FOTyped(rec)
    /\ ParseExpiry(rec.item.expiryDate).raised = "none"
    /\ rec.item.underSym # KeyMissing
    /\ rec.item.minLotSize # KeyMissing
    /\ rec.item.tickSize # KeyMissing
    /\ \A i \in Rows(prevDb) : prevDb.securities[i].symbol # rec.symbol

DerivativeMetaOf(id) ==
    { m \in 1..Len(derivative_meta) : derivative_meta[m].security_id = id }

\* C10: in a derivative sync whose new records are valid except for expiries that
\* cannot be parsed, the records with such an expiry get no row and no meta, and
\* every valid record gets its row and its meta
C10_BadExpirySkipped ==
    (/\ lastRun.path = "FO"
     /\ \E k \in 1..Len(FONew) : FOUnparseable(FONew[k])
     /\ \A k \in 1..Len(FONew) :
            \/ FOUnparseable(FONew[k])
            \/ FOValid(FONew[k])
            \/ FONew[k].item.optType \notin {"XX", "CE", "PE"}) =>
        \A k \in 1..Len(FONew) :
            /\ FOUnparseable(FONew[k]) => AddedRows(FONew[k].symbol) = {}
            /\ FOValid(FONew[k]) =>
                /\ Cardinality(AddedRows(FONew[k].symbol)) = 1
                /\ \A j \in AddedRows(FONew[k].symbol) :
                        Cardinality(DerivativeMetaOf(securities[j].id)) = 1

\* the new records of the last capital-market sync
CMNew == NewRecords(lastRun.data, SymbolsOf(prevDb, "NSE", "CM"))

CMType(rec) == classify_security(rec.symbol, IsinOrNone(rec.item))

\* a record the capital-market loader reads a field of that it does not hold
CMIncomplete(rec) ==
    /\ CMType(rec) \notin {"MF", "UNKNOWN"}
    /\ \/ rec.item.symbolDetails = KeyMissing
       \/ (CMType(rec) = "EQUITY" /\
              (rec.item.minLotSize = KeyMissing \/ rec.item.tickSize = KeyMissing))

\* a record that holds its fields and collides with no stored row and no other
\* record of the file
CMValid(rec) ==
    /\ CMType(rec) \notin {"MF", "UNKNOWN"}
    /\ ~CMIncomplete(rec)
    /\ \A i \in Rows(prevDb) :
        /\ prevDb.securities[i].symbol # rec.symbol
        /\ IsinOrNone(rec.item) # NoneVal =>
                prevDb.securities[i].isin # IsinOrNone(rec.item)
    /\ \A k \in 1..Len(CMNew) :
        (CMNew[k].symbol # rec.symbol /\ IsinOrNone(rec.item) # NoneVal) =>
            IsinOrNone(CMNew[k].item) # IsinOrNone(rec.item)

\* a typed derivative record that lacks a field the loader reads
FOIncomplete(rec) ==
    /\ rec.item.optType \in {"XX", "CE", "PE"}
    /\ \/ rec.item.symbolDetails = KeyMissing
       \/ rec.item.expiryDate = KeyMissing
       \/ rec.item.underSym = KeyMissing
       \/ rec.item.minLotSize = KeyMissing
       \/ rec.item.tickSize = KeyMissing

\* C11: in a sync whose new records are valid except for records that lack a
\* required field, every valid record gets its row
C11_MissingFieldSkipped ==
    /\ (/\ lastRun.path = "CM"
        /\ \E k \in 1..Len(CMNew) : CMIncomplete(CMNew[k])
        /\ \A k \in 1..Len(CMNew) :
            \/ CMIncomplete(CMNew[k])
            \/ CMValid(CMNew[k])
            \/ CMType(CMNew[k]) \in {"MF", "UNKNOWN"}) =>
            \A k \in 1..Len(CMNew) :
                CMValid(CMNew[k]) => Cardinality(AddedRows(CMNew[k].symbol)) = 1
    /\ (/\ lastRun.path = "FO"
        /\ \E k \in 1..Len(FONew) : FOIncomplete(FONew[k])
        /\ \A k \in 1..Len(FONew) :
            \/ FOIncomplete(FONew[k])
            \/ FOValid(FONew[k])
            \/ FONew[k].item.optType \notin {"XX", "CE", "PE"}) =>
            \A k \in 1..Len(FONew) :
                FOValid(FONew[k]) => Cardinality(AddedRows(FONew[k].symbol)) = 1

RowsWithId(id) == { j \in Rows(Db) : securities[j].id = id }

\* C12: every FUTURE or OPTION row has exactly one derivative meta row and no
\* equity meta, every EQUITY row exactly one equity meta row, and every meta row
\* exactly one parent row, of its kind
C12_MetaWithParent ==
    /\ \A j \in Rows(Db) :
        /\ securities[j].security_type \in {"FUTURE", "OPTION"} =>
                Cardinality(DerivativeMetaOf(securities[j].id)) = 1
        /\ securities[j].security_type = "EQUITY" =>
                Cardinality(EquityMetaOf(securities[j].id)) = 1
    /\ \A m \in 1..Len(equity_meta) :
        /\ Cardinality(RowsWithId(equity_meta[m].security_id)) = 1
        /\ \A j \in RowsWithId(equity_meta[m].security_id) :
                securities[j].security_type = "EQUITY"
    /\ \A m \in 1..Len(derivative_meta) :
        /\ Cardinality(RowsWithId(derivative_meta[m].security_id)) = 1
        /\ \A j \in RowsWithId(derivative_meta[m].security_id) :
                securities[j].security_type \in {"FUTURE", "OPTION"}

\* C12: a sync raises after an equity row was flushed, over a store that holds a
\* derivative with its meta
C12_Witness ==
    /\ outcome = "KeyError"
    /\ lastRun.path = "CM"
    /\ Len(lastRun.data) >= 1
    /\ lastRun.data[1].symbol = AEQ
    /\ lastRun.data[1].item.minLotSize = KeyMissing
    /\ \E j \in Rows(Db) : securities[j].security_type \in {"FUTURE", "OPTION"}

\* C13: a row that was closed before a sync is, after it, still there and the same
\* in every field
C13_ClosedRowsImmutable ==
    \A i \in Rows(prevDb) :
        ~IsActive(prevDb.securities[i]) =>
            /\ i <= Len(securities)
            /\ securities[i] = prevDb.securities[i]

\* C13: a fund list is synced and committed over a store that holds a closed row
C13_Witness ==
    /\ lastRun.path = "MF"
    /\ outcome = "committed"
    /\ lastRun.data # <<>>
    /\ \E i \in Rows(prevDb) : ~IsActive(prevDb.securities[i])

\* C14: no two active rows carry the same ISIN, NULL apart
C14_ActiveIsinUnique ==
    \A i, j \in Rows(Db) :
        (/\ IsActive(securities[i])
         /\ IsActive(securities[j])
         /\ securities[i].isin # NoneVal
         /\ securities[i].isin = securities[j].isin) => i = j

\* C14: the file reports for B-INDEX the ISIN the stored active A-EQ row carries
C14_Witness ==
    /\ lastRun.path = "CM"
    /\ \E i \in LocalActive("CM", prevDb), k \in 1..Len(lastRun.data) :
        /\ prevDb.securities[i].symbol = AEQ
        /\ lastRun.data[k].symbol = BINDEX
        /\ lastRun.data[k].item.isin = prevDb.securities[i].isin
    /\ outcome = "IntegrityError"

(***************************************************************************)
(* Claims on the price loader                                              *)
(***************************************************************************)
Supported == timeframe \in {"D", "1"}

CallIds == 1..Len(calls)

AllData == \A i \in CallIds : calls[i].returned = "data"

\* C15: a load without checkpoint starts at today less 20 years of 365 days
\* (daily) or at the present instant less 7 such years (one-minute); its chunks
\* begin at the end of the window, each begins where the one before it ended,
\* none is longer than 2 years (daily) or 60 days (one-minute), and when every
\* call returned data and the load is over they reach the start of the window
C15_WindowCovered ==
    (Supported /\ ld.pc \in {"loop", "returned"} /\ ld.last_update = NullTime) =>
        /\ ld.end_date = IF timeframe = "D" THEN Midnight(DateOf(clock)) ELSE clock
        /\ ld.start_date = ld.end_date -
                (IF timeframe = "D" THEN 365 * 20 ELSE 365 * 7) * MinutesPerDay
        /\ calls # <<>> => calls[1].chunk_to = ld.end_date
        /\ \A i \in CallIds :
            /\ calls[i].chunk_from < calls[i].chunk_to
            /\ calls[i].chunk_from >= ld.start_date
            /\ calls[i].chunk_to - calls[i].chunk_from <=
                    (IF timeframe = "D" THEN 365 * 2 ELSE 60) * MinutesPerDay
            /\ calls[i].range_from = DateOf(calls[i].chunk_from)
            /\ calls[i].range_to = DateOf(calls[i].chunk_to)
            /\ i > 1 => calls[i].chunk_to = calls[i - 1].chunk_from
        /\ (ld.pc = "returned" /\ AllData) =>
            /\ calls # <<>>
            /\ calls[Len(calls)].chunk_from = ld.start_date

\* C15: a one-minute load without checkpoint is over after 43 calls that all
\* returned data
C15_Witness ==
    /\ timeframe = "1"
    /\ ld.pc = "returned"
    /\ ld.last_update = NullTime
    /\ AllData
    /\ Len(calls) = 43

\* one day for the daily series, one minute for the one-minute series
Unit == IF timeframe = "D" THEN MinutesPerDay ELSE 1

\* the present instant as the series counts it: today's date, or the minute
NowOf == IF timeframe = "D" THEN Midnight(DateOf(clock)) ELSE clock

\* C16 as stated: a load whose checkpoint is one unit before now makes exactly
\* one remote call
C16_OneUnitOneCall ==
    (/\ Supported
     /\ ld.pc = "returned"
     /\ ld.last_update # NullTime
     /\ ld.last_update = NowOf - Unit) => Len(calls) = 1

\* C16: a load whose checkpoint is exactly one unit before the present instant
\* makes no remote call; a load whose checkpoint is further back, by no more
\* than the chunk span, makes exactly one
C16_OneUnitNoCall ==
    (Supported /\ ld.pc = "returned" /\ ld.last_update # NullTime) =>
        /\ ld.last_update + Unit = clock => calls = <<>>
        /\ (/\ ld.last_update + Unit < clock
            /\ clock - (ld.last_update + Unit) <=
                    (IF timeframe = "D" THEN 365 * 2 ELSE 60) * MinutesPerDay) =>
                Len(calls) = 1

\* C16: a one-minute load found the checkpoint one minute before the present
\* instant and has returned
C16_Witness ==
    /\ timeframe = "1"
    /\ ld.pc = "returned"
    /\ ld.last_update = clock - 1
    /\ calls = <<>>

\* C17: a load whose checkpoint is at or after now (for the daily series: today's
\* date or a later one) makes no remote call and leaves the price tables as it
\* found them
C17_UpToDateNoCall ==
    (/\ Supported
     /\ ld.pc # "idle"
     /\ ld.last_update # NullTime
     /\ ld.last_update >= NowOf) =>
        /\ ld.pc = "returned"
        /\ calls = <<>>
        /\ priceVars = ld.before

\* C17: a one-minute load found a bar of the present minute, and a later one
C17_Witness ==
    /\ timeframe = "1"
    /\ ld.pc = "returned"
    /\ ld.last_update > clock
    /\ loads = 2

Unique(tf, table) ==
    \A i, j \in 1..Len(table) :
        (/\ table[i].security_id = table[j].security_id
         /\ KeyOf(tf, table[i]) = KeyOf(tf, table[j])) => i = j

\* C18: no price table holds two rows of one security with the same date
\* (timestamp)
C18_OneBarPerKey ==
    /\ Unique("D", daily_price_history)
    /\ Unique("1", one_minute_history)

\* C18: the provider repeated a bar within a chunk, and returned for another
\* chunk the bar of the boundary it shares with a chunk already stored
C18_Witness ==
    /\ provider.mode = "edges"
    /\ \E i, j \in CallIds :
        /\ calls[i].kind = "dup"
        /\ j > 1
        /\ calls[j].kind = "plain"
        /\ calls[j].inserted = 0
        /\ calls[j - 1].inserted > 0

\* C19: a call that returned no data is the last call of its load, the load has
\* returned, and nothing was written for it
C19_StopsOnNoData ==
    /\ ld.pc # "raised"
    /\ \A i \in CallIds :
        calls[i].returned # "data" =>
            /\ i = Len(calls)
            /\ ld.pc = "returned"
            /\ calls[i].inserted = 0

\* C19: the remote call raised after chunks were stored
C19_Witness ==
    /\ ld.pc = "returned"
    /\ Len(calls) >= 2
    /\ calls[Len(calls)].kind = "raise"
    /\ calls[1].inserted > 0

\* the insert of the records of call i failed
PersistFailed(i) == calls[i].returned = "data" /\ calls[i].inserted = 0

\* C20: the load does not raise; a chunk whose insert failed is the last call of
\* a load that has returned only when it is the oldest chunk of the window; and
\* a chunk is stored whole or not at all
C20_ContinuesAfterFailure ==
    /\ ld.pc # "raised"
    /\ \A i \in CallIds :
        /\ (PersistFailed(i) /\ i = Len(calls) /\ ld.pc = "returned") =>
                calls[i].chunk_from = ld.start_date
        /\ calls[i].inserted \in {0, calls[i].n}

\* C20: the insert of one chunk failed and the next, older chunk was requested
\* and stored
C20_Witness ==
    \E i \in CallIds :
        /\ PersistFailed(i)
        /\ i < Len(calls)
        /\ calls[i + 1].chunk_to = calls[i].chunk_from
        /\ calls[i + 1].inserted = calls[i + 1].n
        /\ calls[i + 1].n > 0

RECURSIVE EventsUpTo(_)
\* what the current load did, in the order it did it
EventsUpTo(k) == IF k = 0 THEN <<>> ELSE EventsUpTo(k - 1) \o calls[k].events

Log == EventsUpTo(Len(calls))

\* C21: in the record of what a load did, every remote call is followed at once
\* by its response and every insert at once by its commit or rollback; a call is
\* issued only as the first operation or right after a commit or a rollback,
\* and an insert only right after a response
C21_Sequential ==
    LET log == Log IN
    \A p \in 1..Len(log) :
        /\ log[p] = "call" =>
            /\ p < Len(log)
            /\ log[p + 1] = "response"
            /\ p > 1 => log[p - 1] \in {"commit", "rollback"}
        /\ log[p] = "insert" =>
            /\ p < Len(log)
            /\ log[p + 1] \in {"commit", "rollback"}
            /\ p > 1
            /\ log[p - 1] = "response"
        /\ log[p] = "response" => (p > 1 /\ log[p - 1] = "call")
        /\ log[p] \in {"commit", "rollback"} => (p > 1 /\ log[p - 1] = "insert")

\* C21: a chunk was rolled back, the next was requested and committed
C21_Witness ==
    LET log == Log IN
    \E p \in 1..Len(log) :
        /\ log[p] = "rollback"
        /\ p + 4 <= Len(log)
        /\ log[p + 1] = "call"
        /\ log[p + 4] = "commit"

\* C22: the batch handed to bulk_insert holds its keys in strictly ascending
\* order, so each of them once
C22_BatchDedupedSorted ==
    \A i \in CallIds :
        \A a, b \in 1..Len(calls[i].keys) :
            a < b => calls[i].keys[a] < calls[i].keys[b]

RECURSIVE InsertedUpTo(_)
InsertedUpTo(k) == IF k = 0 THEN 0 ELSE InsertedUpTo(k - 1) + calls[k].inserted

\* C23: a load that has returned returned the number of rows it added
C23_ReturnsBarsWritten ==
    (Supported /\ ld.pc = "returned") =>
        /\ ~ld.returns.isNone
        /\ ld.returns.count = InsertedUpTo(Len(calls))

IsPrefix(s, t) == Len(s) <= Len(t) /\ \A i \in 1..Len(s) : t[i] = s[i]

\* C24: no step changes or removes a stored price row: each price table is,
\* after a step, the table before it with rows added at its end
C24_AppendOnly ==
    [][/\ IsPrefix(daily_price_history, daily_price_history')
       /\ IsPrefix(one_minute_history, one_minute_history')]_vars

\* C24: the provider answered with a bar at another close for a timestamp that
\* is stored, and the load went on
C24_Witness ==
    /\ calls # <<>>
    /\ calls[Len(calls)].kind = "dup"
    /\ calls[Len(calls)].inserted = 0
    /\ \E j \in 1..Len(TableOf(timeframe)), a \in 1..Len(calls[Len(calls)].keys) :
        /\ TableOf(timeframe)[j].security_id = ld.security_id
        /\ KeyOf(timeframe, TableOf(timeframe)[j]) = calls[Len(calls)].keys[a]
        /\ TableOf(timeframe)[j].close = 1

AllPlain == \A i \in CallIds : calls[i].kind = "plain"

\* C25: a load that follows a returned load, both answered the ordinary way by
\* the same provider, leaves the price tables as it found them
C25_RerunWritesNothing ==
    (Supported /\ ld.rerun /\ AllPlain) =>
        /\ priceVars = ld.before
        /\ \A i \in CallIds : calls[i].inserted = 0

\* C25: the second load was answered with bars and has returned
C25_Witness ==
    /\ ld.rerun
    /\ AllPlain
    /\ ld.pc = "returned"
    /\ calls # <<>>
    /\ calls[1].returned = "data"
    /\ Len(ld.before[1]) + Len(ld.before[2]) > 1

InUnits(u) == \E i \in 1..Len(job.units) : job.units[i] = u

\* C26: when the capital-market reconcile of a job failed on a constraint, the
\* derivative file is still reconciled and the job goes on to the price stage
C26_FailureContained ==
    (/\ job.pc # "idle"
     /\ process_master_file(lastRun.data, "NSE", "CM", lastRun.now, prevDb).outcome
            = "IntegrityError") =>
        /\ InUnits("FO")
        /\ job.pc \in {"stage2", "completed"}

ChunkSpan == (IF timeframe = "D" THEN 730 ELSE 60) * MinutesPerDay

CutShort == \E i \in CallIds : calls[i].returned # "data"

\* C27: the chunks of a load, with or without checkpoint, are walked newest
\* first and without gap: the first ends at the end of the window, each later
\* one ends where the one before it begins, each begins before it ends, not
\* before the start of the window and not more than the chunk span before its
\* end; a load that has returned without being cut short has reached the start
C27_ChunksContiguous ==
    (Supported /\ ld.pc \in {"loop", "returned"}) =>
        /\ \A i \in CallIds :
            /\ calls[i].chunk_to = (IF i = 1 THEN ld.end_date
                                    ELSE calls[i - 1].chunk_from)
            /\ calls[i].chunk_from < calls[i].chunk_to
            /\ ld.start_date <= calls[i].chunk_from
            /\ calls[i].chunk_to - ChunkSpan <= calls[i].chunk_from
        /\ (ld.pc = "returned" /\ ~CutShort /\ ld.start_date < ld.end_date) =>
            /\ calls # <<>>
            /\ calls[Len(calls)].chunk_from = ld.start_date
        /\ ld.pc = "loop" =>
            ld.current_to_date = (IF calls = <<>> THEN ld.end_date
                                  ELSE calls[Len(calls)].chunk_from)

\* C27: a load with a checkpoint walked two chunks that both returned data
C27_Witness ==
    /\ ld.pc = "returned"
    /\ ld.last_update # NullTime
    /\ Len(calls) = 2
    /\ ~CutShort

\* (now - start) / chunkSpan, rounded up
MaxCalls == (ld.end_date - ld.start_date + ChunkSpan - 1) \div ChunkSpan

\* C28: the cursor of a load moves below every chunk that returned data, every
\* chunk ends before the one requested before it, and the load makes no more
\* remote calls than chunk spans are needed to cover
\* its window: at most 10 for a daily load without checkpoint, at most 43 for a
\* one-minute one
C28_CallsBounded ==
    (Supported /\ ld.pc \in {"loop", "returned"} /\ ld.start_date < ld.end_date) =>
        /\ Len(calls) <= MaxCalls
        /\ ld.last_update = NullTime =>
                Len(calls) <= (IF timeframe = "D" THEN 10 ELSE 43)
        /\ \A i \in CallIds :
            /\ calls[i].returned = "data" =>
                    ld.current_to_date <= calls[i].chunk_from
            /\ calls[i].chunk_from < calls[i].chunk_to
            /\ i > 1 => calls[i].chunk_to < calls[i - 1].chunk_to
        /\ (ld.pc = "loop") => Len(calls) < MaxCalls

\* C28: a daily load without checkpoint has made its tenth call and returned
C28_Witness ==
    /\ timeframe = "D"
    /\ ld.pc = "returned"
    /\ ld.last_update = NullTime
    /\ Len(calls) = 10
    /\ Len(calls) = MaxCalls

\* the batch of the newest call of the next state collides, within itself or
\* with a row of the table of this state
BatchCollides ==
    LET c == calls'[Len(calls')]
        t == TableOf(timeframe)
    IN  \/ \E a, b \in 1..Len(c.keys) : a # b /\ c.keys[a] = c.keys[b]
        \/ \E a \in 1..Len(c.keys), j \in 1..Len(t) :
            /\ t[j].security_id = ld.security_id
            /\ KeyOf(timeframe, t[j]) = c.keys[a]

\* C29: a step that hands a batch to the store either leaves the price tables as
\* they were, when a record of the batch collides, or adds every record of the
\* batch after the rows stored before
C29_ChunkAllOrNothing ==
    [][(Len(calls') = Len(calls) + 1 /\ calls'[Len(calls')].returned = "data") =>
        LET c == calls'[Len(calls')]
            t == TableOf(timeframe)
        IN  IF BatchCollides
            THEN priceVars' = priceVars
            ELSE /\ Len(TableOf(timeframe)') = Len(t) + Len(c.keys)
                 /\ IsPrefix(t, TableOf(timeframe)')
                 /\ \A a \in 1..Len(c.keys) :
                        /\ TableOf(timeframe)'[Len(t) + a].security_id = ld.security_id
                        /\ KeyOf(timeframe, TableOf(timeframe)'[Len(t) + a]) = c.keys[a]
      ]_vars

\* C29: after a chunk was stored, the batch of the next held a bar already
\* stored and a bar not stored, and neither is stored by it
C29_Witness ==
    /\ Len(calls) >= 2
    /\ calls[Len(calls) - 1].inserted > 0
    /\ calls[Len(calls)].returned = "data"
    /\ calls[Len(calls)].inserted = 0
    /\ \E a \in 1..Len(calls[Len(calls)].keys) :
        \A j \in 1..Len(TableOf(timeframe)) :
            KeyOf(timeframe, TableOf(timeframe)[j]) # calls[Len(calls)].keys[a]

\* C30: the first day of every range a load with a checkpoint requests begins
\* at or after the checkpoint plus one unit
C30_RangeAfterCheckpoint ==
    (Supported /\ ld.last_update # NullTime) =>
        \A i \in CallIds :
            Midnight(calls[i].range_from) >= ld.last_update + Unit

(***************************************************************************)
(* Completeness of a load                                                  *)
(***************************************************************************)
\* the days of the window of the load on which the market has a bar the claim
\* counts: after the checkpoint, or from the start of the default lookback
\* when there was none, and not after the present instant
DueDays ==
    { d \in DateOf(ld.start_date)..DateOf(clock) :
        /\ HasBar(provider.mode, d)
        /\ IF timeframe = "D"
           THEN IF ld.last_update # NullTime THEN d > DateOf(ld.last_update)
                ELSE d >= DateOf(ld.start_date)
           ELSE /\ Candle(d, 1).ts <= clock
                /\ IF ld.last_update # NullTime
                   THEN Candle(d, 1).ts > ld.last_update
                   ELSE Candle(d, 1).ts >= ld.start_date }

\* the keys of the stored rows of the security of the load
StoredKeys ==
    LET table == IF timeframe = "D" THEN daily_price_history ELSE one_minute_history
    IN  { KeyOf(timeframe, table[i]) :
            i \in { j \in 1..Len(table) : table[j].security_id = ld.security_id } }

\* C31: when a load has returned and every one of its remote calls was answered
\* with bars the ordinary way, the store holds every bar the market has in the
\* window of the load, the bars on a day two chunks share included
C31_EveryBarStored ==
    (Supported /\ ld.pc = "returned" /\ AllData /\ AllPlain) =>
        LET keys == StoredKeys
        IN  \A d \in DueDays :
                (IF timeframe = "D" THEN d ELSE Candle(d, 1).ts) \in keys

(***************************************************************************)
(* Identifiers that come back                                              *)
(***************************************************************************)
\* the rows of the exchange and segment of a path, closed ones included
LocalRows(path, db) ==
    { i \in Rows(db) :
        CASE path = "CM" -> /\ db.securities[i].exchange = "NSE"
                            /\ db.securities[i].segment = "CM"
          [] path = "FO" -> /\ db.securities[i].exchange = "NSE"
                            /\ db.securities[i].segment = "FO"
          [] path = "MF" -> db.securities[i].security_type = "MF"
          [] OTHER -> FALSE }

\* the provider record k names an identifier that has rows in the store of
\* before, all of them closed
Reappears(k) ==
    LET old == { i \in LocalRows(lastRun.path, prevDb) :
                   prevDb.securities[i].symbol = lastRun.data[k].symbol }
    IN  /\ old # {}
        /\ \A i \in old : ~IsActive(prevDb.securities[i])

\* every fund of the list carries its name
MFComplete(data) ==
    \A k \in 1..Len(data) : data[k].item.schemeName # KeyMissing

\* C32: an identifier whose stored rows are all closed and that the provider
\* lists again is taken as new: after the sync it has an active row
C32_ReappearedIsNew ==
    (lastRun.path = "MF" /\ MFComplete(lastRun.data)) =>
        \A k \in 1..Len(lastRun.data) :
            Reappears(k) =>
                \E j \in Rows(Db) :
                    /\ securities[j].symbol = lastRun.data[k].symbol
                    /\ IsActive(securities[j])

(***************************************************************************)
(* Identifiers the provider and the store both hold                        *)
(***************************************************************************)
\* the provider's record of a symbol carries the display name the row has
SameName(data, row) ==
    \A k \in 1..Len(data) :
        data[k].symbol = row.symbol => data[k].item.symbolDetails = row.name

\* C33: a capital-market or derivative sync leaves as it was every active row of
\* its exchange and segment whose identifier the provider lists, but for the
\* capital-market rows whose display name the provider changed; a derivative
\* sync adds no other row for such an identifier either
C33_CommonUntouched ==
    lastRun.path \in {"CM", "FO"} =>
        \A i \in LocalActive(lastRun.path, prevDb) :
            LET row == prevDb.securities[i]
            IN  (/\ row.symbol \in ProviderSymbols(lastRun.data)
                 /\ (lastRun.path = "FO" \/ SameName(lastRun.data, row))) =>
                    /\ i \in Rows(Db)
                    /\ securities[i] = row
                    /\ lastRun.path = "FO" => AddedRows(row.symbol) = {}

\* C33: a derivative sync committed new rows while the file listed a stored
\* identifier with an option-type code that is not the one of its row
C33_Witness ==
    /\ lastRun.path = "FO"
    /\ outcome = "committed"
    /\ Len(securities) > Len(prevDb.securities)
    /\ \E i \in LocalActive("FO", prevDb), k \in 1..Len(lastRun.data) :
        /\ lastRun.data[k].symbol = prevDb.securities[i].symbol
        /\ lastRun.data[k].item.optType # KeyMissing
        /\ DerivativeType(lastRun.data[k].item.optType)
                # prevDb.securities[i].security_type

(***************************************************************************)
(* Typing of derivative records                                            *)
(***************************************************************************)
\* the derivative meta rows of the security rows a sync added for a symbol
AddedMeta(symbol) ==
    { m \in 1..Len(derivative_meta) :
        \E j \in AddedRows(symbol) : derivative_meta[m].security_id = securities[j].id }

\* C34: a derivative sync types a new record by its option-type code alone: the
\* row of an XX record is a FUTURE and its meta has no strike and no option
\* right, the row of a CE or PE record is an OPTION and its meta has the
\* record's strike and that right, a record with another code or none has no
\* row; when the sync commits, every valid new record has its one row
C34_TypedByOptionCode ==
    lastRun.path = "FO" =>
        \A k \in 1..Len(FONew) :
            LET rec == FONew[k]
                code == rec.item.optType
            IN  /\ code \notin {"XX", "CE", "PE"} => AddedRows(rec.symbol) = {}
                /\ (outcome = "committed" /\ FOValid(rec)) =>
                        Cardinality(AddedRows(rec.symbol)) = 1
                /\ \A j \in AddedRows(rec.symbol) :
                    /\ securities[j].security_type =
                            (IF code = "XX" THEN "FUTURE" ELSE "OPTION")
                    /\ Cardinality(AddedMeta(rec.symbol)) = 1
                /\ \A m \in AddedMeta(rec.symbol) :
                    IF code = "XX"
                    THEN /\ derivative_meta[m].instrument_type = "FUT"
                         /\ derivative_meta[m].strike_price = NullStr
                         /\ derivative_meta[m].option_type = NullStr
                    ELSE /\ derivative_meta[m].instrument_type = "OPT"
                         /\ derivative_meta[m].strike_price =
                                (IF rec.item.strikePrice = KeyMissing THEN NullStr
                                 ELSE rec.item.strikePrice)
                         /\ derivative_meta[m].option_type = code

\* C34: one derivative sync committed a FUTURE row for an XX record whose symbol
\* ends in -EQ and an OPTION row with its strike, and passed over a record with
\* another code
C34_Witness ==
    /\ lastRun.path = "FO"
    /\ outcome = "committed"
    /\ \E k \in 1..Len(FONew) : FONew[k].item.optType = "ZZ"
    /\ \E j \in AddedRows(AEQ) : securities[j].security_type = "FUTURE"
    /\ \E m \in AddedMeta(OPT1) :
        /\ derivative_meta[m].option_type = "CE"
        /\ derivative_meta[m].strike_price = "25000"

(***************************************************************************)
(* A run of the price loader                                               *)
(***************************************************************************)
\* the pairs whose load the run has called so far
Attempted ==
    [ n \in 1..Len(job.units) |->
        [security_id |-> job.units[n].security_id, tf |-> job.units[n].tf] ]

\* C35: the loads a run has called are the first pairs of its list, security by
\* security and for each the daily then the one-minute timeframe; a load that
\* raised or stopped early does not end the run, and a run that built its client
\* has called the load of every pair when it is over
C35_EveryPairAttempted ==
    /\ Len(job.units) <= Len(Pairs)
    /\ Attempted = SubSeq(Pairs, 1, Len(job.units))
    /\ (job.pc \notin {"idle", "pairs"} /\ job.error # "Initialization failed") =>
            Attempted = Pairs

\* C35: a run over two securities is over; the first load raised, a later one
\* stopped early, and the last one was called
C35_Witness ==
    /\ job.pc = "finished"
    /\ Len(job.units) = 4
    /\ job.units[1].outcome = "raised"
    /\ \E n \in 2..3 : job.units[n].outcome = "stopped"
    /\ job.units[4].outcome = "returned"
    /\ job.units[4].security_id # job.units[1].security_id

(***************************************************************************)
(* Loads after an initial load that was cut short                          *)
(***************************************************************************)
\* C36: after a load without checkpoint that stored a batch and then ended on
\* a call that returned nothing, every call of a later load of the security
\* and timeframe asks for a range that begins after the newest stored bar, so
\* nothing older than the stored bars is asked for again
C36_OnlyAfterStoredMaximum ==
    (Supported /\ ld.resumed) =>
        \A i \in CallIds :
            /\ calls[i].chunk_from > ld.last_update
            /\ IF timeframe = "D"
               THEN calls[i].range_from > DateOf(ld.last_update)
               ELSE Midnight(calls[i].range_from) > ld.last_update

====
